---- MODULE Spec2Model ----
(***************************************************************************)
(* A model of ProfessionalFiatFlowTracker (src/app.py): the market data    *)
(* fetch with its two sources and the mock fallback, the seeded mock data  *)
(* generator, the scoring of a snapshot/inflow pair and the opportunity    *)
(* scan.                                                                   *)
(*                                                                         *)
(* Units.  Floats are modelled as exact integers over fixed denominators:  *)
(*   base prices                 tenths of a dollar                        *)
(*   price, high, low            1/200000 dollar (tenths * 1/100 * 1/200)  *)
(*   price_change_percent        whole percent                             *)
(*   volume, quote_volume        10^4 dollars                              *)
(*   inflows                     thousandths (InflowDen)                   *)
(*   scores                      fractions [n, d], d > 0                   *)
(***************************************************************************)
EXTENDS Integers, Sequences, FiniteSets, TLC

VARIABLES
    hashseed,      \* the process's string-hash key (PYTHONHASHSEED), fixed per process
    rng,           \* state of the process-wide generator np.random
    synth_first,   \* symbol -> first snapshot generate_realistic_market_data returned
    synth_last,    \* symbol -> latest snapshot generate_realistic_market_data returned
    utc_hour,      \* datetime.utcnow().hour
    inflow_last,   \* the latest sample generate_fiat_inflow_data made, with its symbol
    prev_symbol,   \* the symbol of the latest call that used the generator
    synth_again,   \* a symbol was synthesized again after a call for another symbol
    symbols,       \* the argument of fetch_market_data
    run,           \* a call of fetch_market_data: its loop position, market_data, and
                   \* what it did for each symbol (trace)
    run2,          \* a second call of fetch_market_data, made after the first returned
    score_in,      \* the arguments of calculate_scores, a row per key of market_data
    results,       \* the rows calculate_scores returned
    opportunities, \* what detect_opportunities returned
    score_pc       \* "idle", "input", "scored", "detected"

synthVars == <<synth_first, synth_last, utc_hour, inflow_last, prev_symbol, synth_again>>

fetchVars == <<symbols, run, run2>>

scoreVars == <<score_in, results, opportunities, score_pc>>

vars == <<hashseed, rng, synthVars, fetchVars, scoreVars>>

----------------------------------------------------------------------------
(* Bounds of the model *)

\* np.random is modelled by a generator with RngMod states
RngMod == 4
\* the process hash key ranges over 0..MaxHashSeed
MaxHashSeed == 1
\* |z| of a standard normal draw, in whole sigmas.  The generator is always
\* seeded with hash(symbol) % 10000 right before the draw (lines 201-204), and
\* the first normal draw of MT19937 over the seeds 0..9999 lies in
\* [-3.32, 3.76]: MaxSigma over-approximates it.
MaxSigma == 4
\* the generator specification starts at every HourStride-th hour of the day
HourStride == 8
\* fetch_market_data is called with at most MaxSymbols symbols
MaxSymbols == 2
\* calculate_scores is called with at most MaxRows symbols
MaxRows == 3

----------------------------------------------------------------------------
(* Symbols *)

\* a dict: d[k] = v
Put(d, k, v) == [x \in (DOMAIN d) \cup {k} |-> IF x = k THEN v ELSE d[x]]

\* the empty dict
EmptyDict == [x \in {} |-> 0]

\* The symbols of the model: one per volatility tier of current_prices, and
\* XYZ, which no table knows.
Symbols == {"ETH", "BNB", "AVAX", "XRP", "XYZ"}

SymbolOrder == <<"AVAX", "BNB", "ETH", "XRP", "XYZ">>

\* position of a symbol in lexical order
SymCode(symbol) == CHOOSE i \in 1..Len(SymbolOrder) : SymbolOrder[i] = symbol

\* current_prices, in tenths of a dollar (the model's symbols only)
current_prices ==
    [s \in Symbols \ {"XYZ"} |->
        CASE s = "ETH"   -> 25000
          [] s = "BNB"   -> 3000
          [] s = "AVAX"  -> 400
          [] s = "XRP"   -> 6]

\* current_prices.get(symbol, 10), in tenths
BasePrice(symbol) ==
    IF symbol \in DOMAIN current_prices THEN current_prices[symbol] ELSE 100

\* volatility * 100, by the tier of the base price
VolatilityPct(base_price) ==
    IF base_price > 10000 THEN 2
    ELSE IF base_price > 1000 THEN 3
    ELSE IF base_price > 100 THEN 5
    ELSE IF base_price > 10 THEN 8
    ELSE 15

----------------------------------------------------------------------------
(* hash() and np.random *)

HashModulus == 10000

\* hash(symbol): a function of the symbol and of the process's hash key,
\* of either sign
PyHash(symbol, hs) ==
    (IF hs % 2 = 0 THEN 1 ELSE -1) * (SymCode(symbol) * 10007 + hs)

RngStates == 0 .. (RngMod - 1)

\* np.random.seed(seed): the state a seed sets
SeedState(seed) == seed % RngMod

\* the state after one draw
RngStep(g) == (g + 1) % RngMod

\* np.random.normal(0, 1) in state g, in whole sigmas
NormalSigma(g) == ((2 * MaxSigma * g) \div (RngMod - 1)) - MaxSigma

\* np.random.uniform(lo, hi) in state g: a value of [lo, hi)
Uniform(lo, hi, g) == lo + (((hi - lo) * g) \div RngMod)

\* np.random.uniform(100000, 5000000) in state g, in units of 10^5
UniformVolume(g) == Uniform(1, 50, g)

\* np.random.randint(1000, 50000) in state g
RandintTrades(g) == Uniform(1000, 50000, g)

\* seed = hash(symbol) % 10000; np.random.seed(seed): lines 201-202.
\* g is the generator's state before the call.
SeedForSymbolUnseeded(symbol, hs, g) == g

SeedForSymbol(symbol, hs, g) == SeedState(PyHash(symbol, hs) % HashModulus)

----------------------------------------------------------------------------
(* generate_realistic_market_data *)

Abs(x) == IF x < 0 THEN -x ELSE x

\* current_price = base_price * (1 + price_change/100), over 100
SynthPrice(base_price, price_change) == base_price * (100 + price_change)

\* 'high': current_price * (1 + abs(price_change)/100 + volatility/2), over 200
SynthHigh(price100, price_change, vol_pct) ==
    price100 * (200 + 2 * Abs(price_change) + vol_pct)

\* 'low': current_price * (1 - abs(price_change)/100 - volatility/2), over 200
SynthLowNoAbs(price100, price_change, vol_pct) ==
    price100 * (200 - 2 * price_change - vol_pct)

SynthLow(price100, price_change, vol_pct) ==
    price100 * (200 - 2 * Abs(price_change) - vol_pct)

\* The snapshot generate_realistic_market_data(symbol) returns when the
\* generator is in state g at the call.
generate_realistic_market_data(symbol, hs, g) ==
    LET base_price   == BasePrice(symbol)
        vol_pct      == VolatilityPct(base_price)
        g0           == SeedForSymbol(symbol, hs, g)
        price_change == vol_pct * NormalSigma(g0)
        g1           == RngStep(g0)
        price100     == SynthPrice(base_price, price_change)
        volume       == base_price * UniformVolume(g1)
        g2           == RngStep(g1)
    IN  [price                |-> price100 * 200,
         price_change_percent |-> price_change,
         volume               |-> volume,
         quote_volume         |-> volume,
         high                 |-> SynthHigh(price100, price_change, vol_pct),
         low                  |-> SynthLow(price100, price_change, vol_pct),
         trades               |-> RandintTrades(g2)]

----------------------------------------------------------------------------
(* fetch_market_data and fetch_coingecko_data *)

\* the symbols fetch_market_data is called with in the model
FetchSymbols == {"ETH", "XRP", "XYZ"}

\* the keys of binance_symbols, among the model's symbols
binance_symbols == {"ETH", "BNB", "AVAX", "XRP"}

\* the keys of coin_mapping, among the model's symbols
coin_mapping == {"ETH", "BNB", "AVAX", "XRP"}

\* What a request does: it answers 200 with a body that parses ("ok"),
\* answers another status ("status"), raises a connection error ("neterr")
\* or a timeout ("timeout"), or answers 200 with a body that json() or the
\* field accesses and conversions raise on ("parse").
Outcomes == {"ok", "status", "neterr", "timeout", "parse"}

Raising == {"neterr", "timeout", "parse"}

\* bodies of the ticker endpoint
BinancePayloads ==
    {[lastPrice |-> 500, priceChangePercent |-> 3, volume |-> 40,
      quoteVolume |-> 6000, highPrice |-> 520, lowPrice |-> 480, count |-> 1200],
     [lastPrice |-> 90, priceChangePercent |-> -4, volume |-> 7,
      quoteVolume |-> 30, highPrice |-> 99, lowPrice |-> 88, count |-> 15]}

\* bodies of the coin-detail endpoint (their market_data)
CoinGeckoPayloads ==
    {[current_price |-> 510, price_change_percentage_24h |-> 2,
      total_volume |-> 5000, high_24h |-> 530, low_24h |-> 470]}

\* the dict built from a ticker body: lines 108-116
BinanceData(data) ==
    [price                |-> data.lastPrice,
     price_change_percent |-> data.priceChangePercent,
     volume               |-> data.volume,
     quote_volume         |-> data.quoteVolume,
     high                 |-> data.highPrice,
     low                  |-> data.lowPrice,
     trades               |-> data.count]

\* the dict built from a coin-detail body: lines 154-166
CoinGeckoData(data) ==
    [price                |-> data.current_price,
     price_change_percent |-> data.price_change_percentage_24h,
     volume               |-> data.total_volume,
     quote_volume         |-> data.total_volume,
     high                 |-> data.high_24h,
     low                  |-> data.low_24h,
     trades               |-> 0]

\* The result of a step for one symbol:
\*   data     the dict it yields
\*   final    where data comes from: "binance", "coingecko" or "mock"
\*   sources  the sources requested, in order
\*   po, so   what the request to the primary and to the secondary source did
\*            ("-" when none was made)
\*   raised   an exception left the step
Mock(symbol, hs, g, sources, po, so) ==
    [data |-> generate_realistic_market_data(symbol, hs, g), final |-> "mock",
     sources |-> sources, po |-> po, so |-> so, raised |-> FALSE]

\* fetch_coingecko_data(symbol), after the requests in sources were made
fetch_coingecko_data(symbol, so, cg, hs, g, sources, po) ==
    IF symbol \in coin_mapping
    THEN IF so = "ok"
         THEN [data |-> CoinGeckoData(cg), final |-> "coingecko",
               sources |-> Append(sources, "coingecko"), po |-> po, so |-> so,
               raised |-> FALSE]
         \* a status other than 200 falls out of the if; an exception is
         \* swallowed by except: pass; both reach the final fallback
         ELSE Mock(symbol, hs, g, Append(sources, "coingecko"), po, so)
    ELSE Mock(symbol, hs, g, sources, po, "-")

\* the body of the try of fetch_market_data: lines 84-120
TryBody(symbol, po, so, bn, cg, hs, g) ==
    IF symbol \in binance_symbols
    THEN CASE po = "ok" ->
                [data |-> BinanceData(bn), final |-> "binance",
                 sources |-> <<"binance">>, po |-> po, so |-> "-",
                 raised |-> FALSE]
           [] po \in Raising ->
                [data |-> <<>>, final |-> "-", sources |-> <<"binance">>,
                 po |-> po, so |-> "-", raised |-> TRUE]
           [] OTHER ->
                fetch_coingecko_data(symbol, so, cg, hs, g, <<"binance">>, po)
    ELSE fetch_coingecko_data(symbol, so, cg, hs, g, <<>>, "-")

\* except Exception as e: lines 122-124
ExceptHandlerReraise(symbol, hs, g, tried) == tried

\* the handler requesting the primary source once more
ExceptHandlerRetry(symbol, hs, g, tried) ==
    Mock(symbol, hs, g, Append(tried.sources, "binance"), tried.po, tried.so)

ExceptHandler(symbol, hs, g, tried) ==
    Mock(symbol, hs, g, tried.sources, tried.po, tried.so)

\* market_data[symbol] = ...: lines 108, 120 and 124
StoreSkipMock(market_data, symbol, step) ==
    IF step.final = "mock" THEN market_data ELSE Put(market_data, symbol, step.data)

Store(market_data, symbol, step) == Put(market_data, symbol, step.data)

\* One iteration of the loop of fetch_market_data
IterationStep(symbol, po, so, bn, cg, hs, g) ==
    LET tried == TryBody(symbol, po, so, bn, cg, hs, g)
    IN  IF tried.raised THEN ExceptHandler(symbol, hs, g, tried) ELSE tried

\* The loop goes on to the next symbol whatever the iteration did: the try
\* statement is inside the loop body (lines 82-83, 122).
LoopPcEndsOnException(step, more) ==
    IF more /\ step.po \notin Raising THEN "loop" ELSE "done"

LoopPc(step, more) == IF more THEN "loop" ELSE "done"

\* the call before its first iteration
StartRun(syms) ==
    [idx |-> 0, market_data |-> EmptyDict, trace |-> <<>>,
     pc |-> IF Len(syms) = 0 THEN "done" ELSE "loop"]

IdleRun == [idx |-> 0, market_data |-> EmptyDict, trace |-> <<>>, pc |-> "idle"]

\* the call after the iteration for its next symbol
AfterIteration(r, syms, po, so, bn, cg, hs, g) ==
    LET symbol == syms[r.idx + 1]
        step   == IterationStep(symbol, po, so, bn, cg, hs, g)
    IN  IF step.raised
        THEN [r EXCEPT !.pc = "raised",
                       !.trace = Append(@, [symbol |-> symbol] @@ step)]
        ELSE [idx         |-> r.idx + 1,
              market_data |-> Store(r.market_data, symbol, step),
              trace       |-> Append(r.trace, [symbol |-> symbol] @@ step),
              pc          |-> LoopPc(step, r.idx + 1 < Len(syms))]

\* the generator after the iteration: np.random.seed() (line 218) leaves it
\* in a state drawn from the OS when mock data was generated
RngAfter(r_after, g, fresh) ==
    IF r_after.trace[Len(r_after.trace)].final = "mock" THEN fresh ELSE g

SeqsUpTo(S, n) == UNION {[1..k -> S] : k \in 0..n}

Range(seq) == {seq[i] : i \in DOMAIN seq}

----------------------------------------------------------------------------
(* get_current_session and generate_fiat_inflow_data *)

Hours == 0..23

\* self.sessions, in the dict's order
sessions == <<[name |-> "Asia", start |-> 0, end |-> 8],
              [name |-> "Europe", start |-> 8, end |-> 16],
              [name |-> "NY", start |-> 16, end |-> 24]>>

\* the first session whose range holds the hour, 'NY' when none does
get_current_session(hour) ==
    LET hit == {i \in 1..Len(sessions) :
                   sessions[i].start <= hour /\ hour < sessions[i].end}
    IN  IF hit = {} THEN "NY"
        ELSE sessions[CHOOSE i \in hit : \A j \in hit : i <= j].name

\* session_multipliers.get(current_session, 1.0), in tenths
SessionBoost(session) ==
    CASE session = "Asia"   -> 8
      [] session = "Europe" -> 12
      [] session = "NY"     -> 15
      [] OTHER              -> 10

large_caps == {"BTC", "ETH", "BNB", "SOL", "XRP"}

mid_caps == {"ADA", "DOT", "MATIC", "LTC", "AVAX", "LINK", "ATOM"}

\* np.sin(hour / 24 * 2 * np.pi) * 0.3 + 1, in tenths (rounded)
DailyTrend(hour) ==
    <<10, 11, 12, 12, 13, 13, 13, 13, 13, 12, 12, 11,
      10, 9, 9, 8, 7, 7, 7, 7, 7, 8, 9, 9>>[hour + 1]

\* inflows are numerators over InflowDen:
\* base * volatility/10 * session_boost/10 * daily_trend/10
InflowDen == 1000

Max(a, b) == IF a >= b THEN a ELSE b

Min(a, b) == IF a <= b THEN a ELSE b

\* base_inflow, drawn in state g by the symbol's market cap category
BaseInflow(symbol, g) ==
    IF symbol \in large_caps THEN Uniform(200, 800, g)
    ELSE IF symbol \in mid_caps THEN Uniform(50, 300, g)
    ELSE Uniform(10, 150, g)

\* int(current_inflow * factor), current_inflow = num / InflowDen and
\* factor in hundredths
TransactionsPerMin(num, factor) == (num * factor) \div (InflowDen * 100)

\* the iteration with the daily trend left out of avg_inflow_5min
InflowSampleTrendOnCurrent(symbol, hs, g, hour) ==
    LET session_boost == SessionBoost(get_current_session(hour))
        base_inflow   == BaseInflow(symbol, g)
        g0            == SeedForSymbol(symbol, hs, RngStep(g))
        daily_trend   == DailyTrend(hour)
        volatility    == Uniform(6, 14, g0)
        g1            == RngStep(g0)
        current_inflow  == base_inflow * volatility * session_boost * daily_trend
        avg_inflow_5min == base_inflow * 10 * session_boost * 10
    IN  [current_inflow       |-> Max(current_inflow, InflowDen),
         avg_inflow_5min      |-> Max(avg_inflow_5min, InflowDen),
         transactions_per_min |-> TransactionsPerMin(current_inflow,
                                                     Uniform(80, 120, g1)),
         session_boost        |-> session_boost]

\* One iteration of the loop of generate_fiat_inflow_data: the sample made
\* for symbol at the given hour when the generator is in state g.
InflowSample(symbol, hs, g, hour) ==
    LET session_boost == SessionBoost(get_current_session(hour))
        base_inflow   == BaseInflow(symbol, g)
        g0            == SeedForSymbol(symbol, hs, RngStep(g))
        daily_trend   == DailyTrend(hour)
        volatility    == Uniform(6, 14, g0)
        g1            == RngStep(g0)
        current_inflow  == base_inflow * volatility * session_boost * daily_trend
        avg_inflow_5min == base_inflow * 10 * session_boost * daily_trend
    IN  [current_inflow       |-> Max(current_inflow, InflowDen),
         avg_inflow_5min      |-> Max(avg_inflow_5min, InflowDen),
         transactions_per_min |-> TransactionsPerMin(current_inflow,
                                                     Uniform(80, 120, g1)),
         session_boost        |-> session_boost]

----------------------------------------------------------------------------
(* calculate_scores *)

RECURSIVE Gcd(_, _)
Gcd(a, b) == IF b = 0 THEN a ELSE Gcd(b, a % b)

\* comparisons of a fraction with a whole number
Gt(x, k) == x.n > k * x.d

Lt(x, k) == x.n < k * x.d

\* flow_ratio = current_inflow / avg_inflow_5min;
\* fiat_flow_score = min(max((flow_ratio - 1) * 200 + 100, 0), 200),
\* 100 when avg_inflow_5min is not positive
FiatFlowUnclamped(inflow) ==
    IF inflow.avg_inflow_5min > 0
    THEN LET g == Gcd(inflow.current_inflow, inflow.avg_inflow_5min)
             c == inflow.current_inflow \div g
             a == inflow.avg_inflow_5min \div g
         IN  [n |-> 200 * c - 100 * a, d |-> a]
    ELSE [n |-> 100, d |-> 1]

FiatFlowScore(inflow) ==
    IF inflow.avg_inflow_5min > 0
    THEN LET g == Gcd(inflow.current_inflow, inflow.avg_inflow_5min)
             c == inflow.current_inflow \div g
             a == inflow.avg_inflow_5min \div g
         IN  [n |-> Min(Max(200 * c - 100 * a, 0), 200 * a), d |-> a]
    ELSE [n |-> 100, d |-> 1]

\* market.get('quote_volume', 0)
QuoteVolume(market) ==
    IF "quote_volume" \in DOMAIN market THEN market.quote_volume ELSE 0

\* price_momentum = price_change_percent * 2;
\* volume_ratio = min(quote_volume / 1000000, 10);
\* momentum_score = fiat_flow_score*0.6 + price_momentum*0.3 + volume_ratio*0.1
MomentumScore(flow, price_change_percent, quote_volume) ==
    [n |-> 600 * flow.n + 600 * price_change_percent * flow.d
              + Min(quote_volume, 1000) * flow.d,
     d |-> 1000 * flow.d]

\* volume_score = min(quote_volume / 50000000 * 100, 100)
VolumeScore(quote_volume) == [n |-> Min(2 * quote_volume, 10000), d |-> 100]

\* combined_score = fiat_flow_score*0.35 + momentum_score*0.35
\*                  + volume_score*0.2 + (100 + price_momentum)*0.1
CombinedScore(flow, momentum, volume, price_change_percent) ==
    [n |-> 35000 * flow.n + 35 * momentum.n + 200 * flow.d * volume.n
              + (1000000 + 20000 * price_change_percent) * flow.d,
     d |-> 100000 * flow.d]

\* the if/elif chain of lines 297-311
SignalWeakFirst(momentum, flow, price_change_percent) ==
    IF Gt(momentum, 80) /\ Gt(flow, 110) THEN "BUY"
    ELSE IF Gt(momentum, 120) /\ Gt(flow, 130) /\ price_change_percent > 2
    THEN "STRONG BUY"
    ELSE IF Lt(momentum, 80) /\ Lt(flow, 90) THEN "SELL"
    ELSE IF Lt(momentum, 60) /\ Lt(flow, 80) /\ price_change_percent < -2
    THEN "STRONG SELL"
    ELSE "HOLD"

Signal(momentum, flow, price_change_percent) ==
    IF Gt(momentum, 120) /\ Gt(flow, 130) /\ price_change_percent > 2
    THEN "STRONG BUY"
    ELSE IF Gt(momentum, 80) /\ Gt(flow, 110) THEN "BUY"
    ELSE IF Lt(momentum, 60) /\ Lt(flow, 80) /\ price_change_percent < -2
    THEN "STRONG SELL"
    ELSE IF Lt(momentum, 80) /\ Lt(flow, 90) THEN "SELL"
    ELSE "HOLD"

SignalStrength(signal) ==
    CASE signal = "STRONG BUY"  -> "strong-buy"
      [] signal = "BUY"         -> "buy"
      [] signal = "STRONG SELL" -> "strong-sell"
      [] signal = "SELL"        -> "sell"
      [] OTHER                  -> "neutral"

\* the row appended for one symbol: lines 270-327 (the timestamp left out)
ScoreRow(symbol, market, inflow, hour) ==
    LET fiat_flow_score == FiatFlowScore(inflow)
        momentum_score  == MomentumScore(fiat_flow_score,
                                         market.price_change_percent,
                                         QuoteVolume(market))
        volume_score    == VolumeScore(QuoteVolume(market))
        signal          == Signal(momentum_score, fiat_flow_score,
                                  market.price_change_percent)
    IN  [symbol               |-> symbol,
         fiat_flow_score      |-> fiat_flow_score,
         momentum_score       |-> momentum_score,
         volume_score         |-> volume_score,
         combined_score       |-> CombinedScore(fiat_flow_score, momentum_score,
                                                volume_score,
                                                market.price_change_percent),
         price_change_percent |-> market.price_change_percent,
         price                |-> market.price,
         volume               |-> QuoteVolume(market),
         signal               |-> signal,
         signal_strength      |-> SignalStrength(signal),
         inflow_transactions  |-> inflow.transactions_per_min,
         session              |-> get_current_session(hour)]

\* calculate_scores(market_data, inflow_data); rows[i] holds the i-th key of
\* market_data with its market and inflow dicts
calculate_scores(rows, hour) ==
    [i \in 1..Len(rows) |->
        ScoreRow(rows[i].symbol, rows[i].market, rows[i].inflow, hour)]

----------------------------------------------------------------------------
(* detect_opportunities *)

\* opportunities[:5]
TopN == 5

\* df[(df['momentum_score'] > 80) & (df['fiat_flow_score'] > 120)]
IsStrongBuy(row) == Gt(row.momentum_score, 80) /\ Gt(row.fiat_flow_score, 120)

\* df[(momentum_score < 60) & (fiat_flow_score > 100) & (price_change_percent < -1)]
IsOversold(row) ==
    /\ Lt(row.momentum_score, 60)
    /\ Gt(row.fiat_flow_score, 100)
    /\ row.price_change_percent < -1

\* df[(df['volume_score'] > 70) & (abs(df['price_change_percent']) > 3)]
IsVolumeSpike(row) ==
    Gt(row.volume_score, 70) /\ Abs(row.price_change_percent) > 3

\* the messages appended for the selected rows (their kind, symbol and,
\* for a volume move, direction; the formatted numbers left out)
Describe(rows, kind) ==
    [i \in 1..Len(rows) |->
        [kind      |-> kind,
         symbol    |-> rows[i].symbol,
         direction |-> IF kind # "volume" THEN "-"
                       ELSE IF rows[i].price_change_percent > 0 THEN "up"
                       ELSE "down"]]

\* opportunities[:5]
TruncateNone(seq) == seq

Truncate(seq) == SubSeq(seq, 1, Min(TopN, Len(seq)))

detect_opportunities(df) ==
    Truncate(Describe(SelectSeq(df, IsStrongBuy), "momentum")
             \o Describe(SelectSeq(df, IsOversold), "oversold")
             \o Describe(SelectSeq(df, IsVolumeSpike), "volume"))

----------------------------------------------------------------------------
(* The generator specification: calls of generate_realistic_market_data    *)
(* for any symbols, in any order, in one process.                          *)

\* no call of the generator made yet
SynthIdle ==
    /\ synth_first = EmptyDict
    /\ synth_last = EmptyDict
    /\ inflow_last = <<>>
    /\ prev_symbol = ""
    /\ synth_again = FALSE

\* no call of fetch_market_data made
FetchIdle ==
    /\ symbols = <<>>
    /\ run = IdleRun
    /\ run2 = IdleRun

\* no call of calculate_scores made
ScoreIdle ==
    /\ score_in = <<>>
    /\ results = <<>>
    /\ opportunities = <<>>
    /\ score_pc = "idle"

SynthInit ==
    /\ hashseed \in 0..MaxHashSeed
    /\ rng \in RngStates
    /\ utc_hour \in {h \in Hours : h % HourStride = 0}
    /\ SynthIdle
    /\ FetchIdle
    /\ ScoreIdle

\* one call generate_realistic_market_data(symbol); np.random.seed() at its
\* end (line 218) leaves the generator in a state drawn from the OS
Synthesize(symbol) ==
    /\ LET data == generate_realistic_market_data(symbol, hashseed, rng)
       IN  /\ synth_last' = Put(synth_last, symbol, data)
           /\ synth_first' = IF symbol \in DOMAIN synth_first
                             THEN synth_first
                             ELSE Put(synth_first, symbol, data)
    /\ rng' \in RngStates
    /\ prev_symbol' = symbol
    /\ synth_again' = (synth_again \/ (symbol \in DOMAIN synth_first
                                        /\ prev_symbol # symbol))
    /\ UNCHANGED <<hashseed, utc_hour, inflow_last, fetchVars, scoreVars>>

\* one iteration of the loop of generate_fiat_inflow_data, for symbol;
\* np.random.seed() at its end (line 261) leaves the generator in a state
\* drawn from the OS
InflowIteration(symbol) ==
    /\ inflow_last' = <<[symbol |-> symbol,
                         sample |-> InflowSample(symbol, hashseed, rng, utc_hour)]>>
    /\ rng' \in RngStates
    /\ prev_symbol' = symbol
    /\ UNCHANGED <<hashseed, utc_hour, synth_first, synth_last, synth_again,
                   fetchVars, scoreVars>>

SynthNext ==
    \E symbol \in Symbols :
        \/ Synthesize(symbol)
        \/ InflowIteration(symbol)

SpecSynth == SynthInit /\ [][SynthNext]_vars

----------------------------------------------------------------------------
(* The fetch specification: one call fetch_market_data(symbols), an        *)
(* iteration of its loop at a time, the sources answering in any way.      *)

FetchInit ==
    /\ hashseed \in 0..MaxHashSeed
    /\ rng \in RngStates
    /\ utc_hour = 0
    /\ SynthIdle
    /\ symbols \in SeqsUpTo(FetchSymbols, MaxSymbols)
    /\ run = StartRun(symbols)
    /\ run2 = IdleRun
    /\ ScoreIdle

\* the iteration of the first call for its next symbol
FetchIteration ==
    /\ run.pc = "loop"
    /\ \E po \in Outcomes, so \in Outcomes, bn \in BinancePayloads,
          cg \in CoinGeckoPayloads, fresh \in RngStates :
          /\ run' = AfterIteration(run, symbols, po, so, bn, cg, hashseed, rng)
          /\ rng' = RngAfter(run', rng, fresh)
    /\ UNCHANGED <<hashseed, synthVars, symbols, run2, scoreVars>>

FetchNext == FetchIteration

Spec == FetchInit /\ [][FetchNext]_vars

----------------------------------------------------------------------------
(* The two-call specification: fetch_market_data is called twice in one    *)
(* process with the same two distinct symbols, the sources answering each  *)
(* call in any way.                                                        *)

PairInit ==
    /\ hashseed \in 0..MaxHashSeed
    /\ rng \in RngStates
    /\ utc_hour = 0
    /\ SynthIdle
    /\ symbols \in {syms \in [1..2 -> FetchSymbols] : syms[1] # syms[2]}
    /\ run = StartRun(symbols)
    /\ run2 = IdleRun
    /\ ScoreIdle

\* the second call starts when the first has returned
SecondCall ==
    /\ run.pc = "done"
    /\ run2.pc = "idle"
    /\ run2' = StartRun(symbols)
    /\ UNCHANGED <<hashseed, rng, synthVars, symbols, run, scoreVars>>

\* the iteration of the second call for its next symbol
FetchIteration2 ==
    /\ run2.pc = "loop"
    /\ \E po \in Outcomes, so \in Outcomes, bn \in BinancePayloads,
          cg \in CoinGeckoPayloads, fresh \in RngStates :
          /\ run2' = AfterIteration(run2, symbols, po, so, bn, cg, hashseed, rng)
          /\ rng' = RngAfter(run2', rng, fresh)
    /\ UNCHANGED <<hashseed, synthVars, symbols, run, scoreVars>>

PairNext == FetchIteration \/ SecondCall \/ FetchIteration2

SpecPair == PairInit /\ [][PairNext]_vars

----------------------------------------------------------------------------
(* The scoring specification: calculate_scores on one symbol over a grid   *)
(* of inflows, price changes and volumes, or on up to MaxRows symbols      *)
(* drawn from a selection of the grid; then detect_opportunities on the    *)
(* rows it returned.                                                       *)

\* (current_inflow, avg_inflow_5min) in whole units: around every threshold
\* of the flow score with avg 20, and ratios that do not divide
GridInflows ==
    {<<c, 20>> : c \in {9, 10, 17, 18, 19, 20, 21, 22, 23, 24, 25, 26, 30, 31}}
        \cup {<<1, 1>>, <<2, 1>>, <<4, 3>>, <<1, 3>>, <<1, 20>>}

GridPriceChanges == {-11, -4, -3, -2, -1, 0, 2, 3, 4}

GridVolumes == {0, 200, 1000, 3500, 3600, 5000, 6000}

ScoreInput(symbol, io, price_change_percent, quote_volume) ==
    [symbol |-> symbol,
     market |-> [price |-> 500, price_change_percent |-> price_change_percent,
                 volume |-> quote_volume, quote_volume |-> quote_volume,
                 high |-> 520, low |-> 480, trades |-> 1200],
     inflow |-> [current_inflow |-> io[1] * InflowDen,
                 avg_inflow_5min |-> io[2] * InflowDen,
                 transactions_per_min |-> io[1],
                 session_boost |-> 8]]

\* inputs of the tables of several rows: a strong buy on high volume, an
\* oversold row, a volume move down, a strong sell, a buy
SelectedInputs ==
    {<<<<30, 20>>, 4, 5000>>, <<<<21, 20>>, -11, 0>>, <<<<20, 20>>, -4, 3600>>,
     <<<<17, 20>>, -3, 0>>, <<<<24, 20>>, 0, 0>>}

ScoreTables ==
    {<<ScoreInput(SymbolOrder[1], io, pcp, qv)>> :
         io \in GridInflows, pcp \in GridPriceChanges, qv \in GridVolumes}
    \cup
    {[i \in 1..Len(choice) |->
         ScoreInput(SymbolOrder[i], choice[i][1], choice[i][2], choice[i][3])] :
         choice \in SeqsUpTo(SelectedInputs, MaxRows)}

ScoreInit ==
    /\ hashseed = 0
    /\ rng = 0
    /\ utc_hour = 0
    /\ SynthIdle
    /\ FetchIdle
    /\ score_in \in ScoreTables
    /\ results = <<>>
    /\ opportunities = <<>>
    /\ score_pc = "input"

\* results_df = tracker.calculate_scores(market_data, inflow_data)
CalculateScores ==
    /\ score_pc = "input"
    /\ results' = calculate_scores(score_in, utc_hour)
    /\ score_pc' = "scored"
    /\ UNCHANGED <<hashseed, rng, synthVars, fetchVars, score_in, opportunities>>

\* opportunities = tracker.detect_opportunities(df), on the rows returned
DetectOpportunities ==
    /\ score_pc = "scored"
    /\ opportunities' = detect_opportunities(results)
    /\ score_pc' = "detected"
    /\ UNCHANGED <<hashseed, rng, synthVars, fetchVars, score_in, results>>

ScoreNext == CalculateScores \/ DetectOpportunities

SpecScore == ScoreInit /\ [][ScoreNext]_vars

----------------------------------------------------------------------------
(* The inflow specification: iterations of generate_fiat_inflow_data at    *)
(* any UTC hour, and calculate_scores on the sample of the last one.       *)

InflowInit ==
    /\ hashseed \in 0..MaxHashSeed
    /\ rng \in RngStates
    /\ utc_hour \in Hours
    /\ SynthIdle
    /\ FetchIdle
    /\ ScoreIdle

\* calculate_scores(market_data, inflow_data) for the symbol of the last
\* iteration, its market data parsed from a response
ScoreInflow ==
    /\ inflow_last # <<>>
    /\ \E cg \in CoinGeckoPayloads :
          score_in' = <<[symbol |-> inflow_last[1].symbol,
                         market |-> CoinGeckoData(cg),
                         inflow |-> inflow_last[1].sample]>>
    /\ results' = calculate_scores(score_in', utc_hour)
    /\ score_pc' = "scored"
    /\ UNCHANGED <<hashseed, rng, synthVars, fetchVars, opportunities>>

InflowNext ==
    \/ \E symbol \in Symbols : InflowIteration(symbol)
    \/ ScoreInflow

SpecInflow == InflowInit /\ [][InflowNext]_vars

----------------------------------------------------------------------------
(* Claims on the fetch *)

Failed == Outcomes \ {"ok"}

\* C1: fetch_market_data returns a dict whose keys are exactly the requested
\* symbols, whatever the sources did, and no exception leaves it.
C1_FetchTotal ==
    /\ run.pc # "raised"
    /\ DOMAIN run.market_data = {symbols[i] : i \in 1..run.idx}
    /\ run.pc = "done" => run.idx = Len(symbols)

\* a call returned after a request raised for one symbol and another symbol
\* had no mapping
C1_Witness ==
    /\ run.pc = "done"
    /\ Len(symbols) = MaxSymbols
    /\ \E i \in DOMAIN run.trace : run.trace[i].po \in Raising
    /\ \E i \in DOMAIN run.trace : run.trace[i].symbol \notin binance_symbols

\* C2: when the primary source fails in any way the secondary source is
\* requested, and mock data is generated only after the secondary source
\* failed too or has no mapping for the symbol.
C2_SecondaryBeforeMock ==
    \A i \in DOMAIN run.trace :
        LET e == run.trace[i]
        IN  /\ (e.po \in Failed /\ e.symbol \in coin_mapping)
                   => "coingecko" \in Range(e.sources)
            /\ e.final = "mock"
                   => (e.symbol \notin coin_mapping \/ e.so \in Failed)

\* C3: every snapshot carries an authenticity flag, true exactly when it was
\* parsed from a source's response and false when it is mock data.
C3_AuthenticFlag ==
    \A i \in DOMAIN run.trace :
        LET e == run.trace[i]
        IN  /\ "is_authentic" \in DOMAIN e.data
            /\ e.data.is_authentic = (e.final \in {"binance", "coingecko"})

\* C4: what a call does for a symbol, and the snapshot it stores, depend on
\* that symbol's own requests only: two calls in which the symbol's sources
\* answer alike request the same sources for it and take the same path,
\* whatever happened for the other symbol.
C4_Isolation ==
    (run.pc = "done" /\ run2.pc = "done") =>
        \A i \in 1..Len(symbols) :
            /\ i \in DOMAIN run.trace
            /\ i \in DOMAIN run2.trace
            /\ LET a == run.trace[i]
                   b == run2.trace[i]
               IN  /\ a.po = b.po =>
                          ("coingecko" \in Range(a.sources)
                              <=> "coingecko" \in Range(b.sources))
                   /\ (a.po = b.po /\ a.so = b.so) =>
                          /\ a.sources = b.sources
                          /\ a.final = b.final
                          /\ a.final = "mock" => a.data = b.data

\* two calls that took the same path to mock data for one symbol while a
\* request for the other symbol raised in one call only
C4_Witness ==
    /\ run.pc = "done"
    /\ run2.pc = "done"
    /\ \E i, j \in 1..Len(symbols) :
          /\ i # j
          /\ run.trace[j].po \in Raising
          /\ run2.trace[j].po = "ok"
          /\ run.trace[i].po = "status"
          /\ run2.trace[i].po = "status"
          /\ run.trace[i].so = run2.trace[i].so
          /\ run.trace[i].final = "mock"

\* the number of requests to a source among the requests of an iteration
C13_Count(sources, source) ==
    Cardinality({k \in DOMAIN sources : sources[k] = source})

\* the requests made to a source for a symbol in the whole call
C13_Total(symbol, source) ==
    LET Sum[k \in 0..Len(run.trace)] ==
            IF k = 0 THEN 0
            ELSE Sum[k - 1]
                 + (IF run.trace[k].symbol = symbol
                    THEN C13_Count(run.trace[k].sources, source) ELSE 0)
    IN  Sum[Len(run.trace)]

\* C13: in one call of fetch_market_data the primary and the secondary
\* source are each requested at most once for a symbol (once per place of
\* the symbol in the list), the secondary never before the primary when the
\* symbol has a primary mapping, and a request that times out is not made
\* again: the iteration goes on to a later step of the chain.
C13_NoRetry ==
    /\ \A i \in DOMAIN run.trace :
          LET e == run.trace[i]
          IN  /\ C13_Count(e.sources, "binance") <= 1
              /\ C13_Count(e.sources, "coingecko") <= 1
              /\ e.symbol \notin binance_symbols
                     => C13_Count(e.sources, "binance") = 0
              /\ (e.symbol \in binance_symbols
                      /\ C13_Count(e.sources, "coingecko") > 0)
                     => (Len(e.sources) = 2 /\ e.sources[1] = "binance")
              /\ e.po = "timeout"
                     => /\ C13_Count(e.sources, "binance") = 1
                        /\ e.final \in {"coingecko", "mock"}
              /\ e.so = "timeout"
                     => /\ C13_Count(e.sources, "coingecko") = 1
                        /\ e.final = "mock"
    /\ \A s \in FetchSymbols :
          LET places == Cardinality({i \in 1..run.idx : symbols[i] = s})
          IN  /\ C13_Total(s, "binance") <= places
              /\ C13_Total(s, "coingecko") <= places

\* a call returned in which the primary request timed out for one symbol
\* and the secondary request timed out, after the primary answered another
\* status, for another symbol
C13_Witness ==
    /\ run.pc = "done"
    /\ \E i \in DOMAIN run.trace : run.trace[i].po = "timeout"
    /\ \E i \in DOMAIN run.trace :
          /\ run.trace[i].so = "timeout"
          /\ run.trace[i].sources = <<"binance", "coingecko">>

----------------------------------------------------------------------------
(* Claims on the scores *)

\* C5: the signal of every row is the first matching row of the table
\* (1) momentum > 120, flow > 130, price change > 2: STRONG BUY
\* (2) momentum > 80, flow > 110: BUY
\* (3) momentum < 60, flow < 80, price change < -2: STRONG SELL
\* (4) momentum < 80, flow < 90: SELL
\* (5) otherwise HOLD;
\* a row matching a strong rule and its weaker rule gets the strong signal.
C5_SignalTable ==
    \A i \in DOMAIN results :
        LET r  == results[i]
            m  == r.momentum_score
            f  == r.fiat_flow_score
            p  == r.price_change_percent
            r1 == m.n > 120 * m.d /\ f.n > 130 * f.d /\ p > 2
            r2 == m.n > 80 * m.d /\ f.n > 110 * f.d
            r3 == m.n < 60 * m.d /\ f.n < 80 * f.d /\ p < -2
            r4 == m.n < 80 * m.d /\ f.n < 90 * f.d
        IN  /\ r.signal \in {"STRONG BUY", "BUY", "STRONG SELL", "SELL", "HOLD"}
            /\ r.signal = "STRONG BUY" <=> r1
            /\ r.signal = "BUY" <=> (~r1 /\ r2)
            /\ r.signal = "STRONG SELL" <=> (~r1 /\ ~r2 /\ r3)
            /\ r.signal = "SELL" <=> (~r1 /\ ~r2 /\ ~r3 /\ r4)
            /\ r.signal = "HOLD" <=> (~r1 /\ ~r2 /\ ~r3 /\ ~r4)
            /\ (r1 /\ r2) => r.signal = "STRONG BUY"
            /\ (r3 /\ r4) => r.signal = "STRONG SELL"

\* rows returned with a strong buy, which matches rules 1 and 2, and a
\* strong sell, which matches rules 3 and 4
C5_Witness ==
    /\ score_pc = "scored"
    /\ \E i \in DOMAIN results : results[i].signal = "STRONG BUY"
    /\ \E i \in DOMAIN results : results[i].signal = "STRONG SELL"

\* the rows sorted before row i: a higher flow score, or the same score and
\* a lexically smaller symbol
C6_Before(i) ==
    {j \in DOMAIN results :
        LET a == results[j].fiat_flow_score
            b == results[i].fiat_flow_score
        IN  \/ a.n * b.d > b.n * a.d
            \/ /\ a.n * b.d = b.n * a.d
               /\ SymCode(results[j].symbol) < SymCode(results[i].symbol)}

\* C6: every row carries its 1-based rank by flow score (descending, ties
\* by symbol) and the inflow level of the first matching rule: rank <= 3
\* and score > 150 VeryHigh; rank <= 8 and score > 120 High; score > 100
\* Medium; otherwise Low.
C6_RankAndLevel ==
    \A i \in DOMAIN results :
        LET r    == results[i]
            f    == r.fiat_flow_score
            rank == 1 + Cardinality(C6_Before(i))
        IN  /\ "inflow_rank" \in DOMAIN r
            /\ "inflow_level" \in DOMAIN r
            /\ r.inflow_rank = rank
            /\ r.inflow_level =
                   (IF rank <= 3 /\ f.n > 150 * f.d THEN "VeryHigh"
                    ELSE IF rank <= 8 /\ f.n > 120 * f.d THEN "High"
                    ELSE IF f.n > 100 * f.d THEN "Medium"
                    ELSE "Low")

\* the (rule, row) pairs of the rows returned that match a rule of
\* detect_opportunities
C7_Matches ==
    {m \in (1..3) \X (DOMAIN results) :
        LET r == results[m[2]]
            mo == r.momentum_score
            f == r.fiat_flow_score
            v == r.volume_score
            p == r.price_change_percent
        IN  CASE m[1] = 1 -> mo.n > 80 * mo.d /\ f.n > 120 * f.d
              [] m[1] = 2 -> mo.n < 60 * mo.d /\ f.n > 100 * f.d /\ p < -1
              [] m[1] = 3 -> v.n > 70 * v.d /\ (p > 3 \/ p < -3)}

\* the place of a match when all rule-1 matches come first, then all
\* rule-2 matches, then all rule-3 matches, each group in row order
C7_Place(m) ==
    1 + Cardinality({k \in C7_Matches :
                        k[1] < m[1] \/ (k[1] = m[1] /\ k[2] < m[2])})

C7_Kind(rule) == <<"momentum", "oversold", "volume">>[rule]

\* C7: detect_opportunities returns the first five of the rule-1 messages
\* followed by the rule-2 and the rule-3 messages, each group in row order
\* (all of them when there are fewer than five).
C7_TopFive ==
    score_pc = "detected" =>
        /\ Len(opportunities) <= 5
        /\ Len(opportunities) = Min(5, Cardinality(C7_Matches))
        /\ \A m \in C7_Matches :
               C7_Place(m) <= 5 =>
                   /\ opportunities[C7_Place(m)].kind = C7_Kind(m[1])
                   /\ opportunities[C7_Place(m)].symbol = results[m[2]].symbol
        /\ \A a, b \in DOMAIN opportunities :
               (a < b /\ opportunities[a].kind = "volume")
                   => opportunities[b].kind = "volume"
        /\ \A a, b \in DOMAIN opportunities :
               (a < b /\ opportunities[a].kind = "oversold")
                   => opportunities[b].kind # "momentum"

\* more than five matches, of which five were returned
C7_Witness ==
    /\ score_pc = "detected"
    /\ Cardinality(C7_Matches) > 5
    /\ Len(opportunities) = 5
    /\ opportunities[1].kind = "momentum"
    /\ opportunities[5].kind = "volume"

\* C8: with current_inflow >= 1, avg_inflow_5min >= 1 and quote_volume >= 0,
\* fiat_flow_score = clamp((current/avg - 1) * 200 + 100, 0, 200), in
\* [0, 200], and volume_score = min(quote_volume / 50,000,000 * 100, 100),
\* in [0, 100].
C8_ScoreBounds ==
    \A i \in DOMAIN results :
        LET f   == results[i].fiat_flow_score
            v   == results[i].volume_score
            cur == score_in[i].inflow.current_inflow
            avg == score_in[i].inflow.avg_inflow_5min
            qv  == score_in[i].market.quote_volume
            x   == 200 * cur - 100 * avg
        IN  (cur >= InflowDen /\ avg >= InflowDen /\ qv >= 0) =>
                /\ 0 <= f.n /\ f.n <= 200 * f.d
                /\ 0 <= v.n /\ v.n <= 100 * v.d
                /\ IF x < 0 THEN f.n = 0
                   ELSE IF x > 200 * avg THEN f.n = 200 * f.d
                   ELSE f.n * avg = x * f.d
                /\ IF qv > 5000 THEN v.n = 100 * v.d
                   ELSE v.n * 50 = qv * v.d

\* a row whose flow score and volume score are both cut at the upper end,
\* and a row whose flow score is cut at 0
C8_Witness ==
    /\ score_pc = "scored"
    /\ \E i \in DOMAIN results :
          /\ 2 * score_in[i].inflow.current_inflow
                 > 3 * score_in[i].inflow.avg_inflow_5min
          /\ results[i].fiat_flow_score.n = 200 * results[i].fiat_flow_score.d
    /\ \E i \in DOMAIN results :
          /\ score_in[i].market.quote_volume > 5000
          /\ results[i].volume_score.n = 100 * results[i].volume_score.d

----------------------------------------------------------------------------
(* Claims on the generator *)

\* C9: every call of generate_realistic_market_data(symbol) in one process
\* returns the snapshot its first call returned, whatever calls for other
\* symbols (mock data, inflow) were made in between.
C9_SynthReproducible ==
    \A s \in DOMAIN synth_first : synth_last[s] = synth_first[s]

\* a symbol has been synthesized again after a call for another symbol
C9_Witness ==
    /\ synth_again
    /\ prev_symbol \in DOMAIN synth_first
    /\ inflow_last # <<>>

\* C10: every snapshot the generator makes has high >= price >= low >= 0.
C10_SynthBounds ==
    \A s \in DOMAIN synth_last :
        /\ synth_last[s].high >= synth_last[s].price
        /\ synth_last[s].price >= synth_last[s].low
        /\ synth_last[s].low >= 0

\* snapshots of a symbol current_prices does not know and of the most
\* volatile tier at the largest draw
C10_Witness ==
    /\ "XYZ" \in DOMAIN synth_last
    /\ "XRP" \in DOMAIN synth_last
    /\ Abs(synth_last["XRP"].price_change_percent) = 15 * MaxSigma

\* C11: every draw made for a symbol is taken after the generator was seeded
\* with hash(symbol) % 10000, so at a fixed UTC hour an iteration of
\* generate_fiat_inflow_data for a symbol makes the sample the iteration
\* before it made for that symbol.
C11_InflowReproducible ==
    [][(/\ inflow_last # <<>>
        /\ inflow_last' # <<>>
        /\ inflow_last'[1].symbol = inflow_last[1].symbol)
           => inflow_last'[1].sample = inflow_last[1].sample]_vars

\* C12: a call of generate_realistic_market_data, or an iteration of
\* generate_fiat_inflow_data, leaves the process-wide generator in the state
\* it found it in.
C12_RngUnchanged == [][rng' = rng]_vars

----------------------------------------------------------------------------
(* Claims on the inflow *)

\* the volatility factor of a symbol, in tenths: the first draw after the
\* seeding of line 245
C14_Volatility(symbol) == Uniform(6, 14, SeedForSymbol(symbol, hashseed, 0))

\* C14: for every symbol, session, UTC hour and base inflow neither
\* max(., 1) of generate_fiat_inflow_data is active, current_inflow /
\* avg_inflow_5min is the volatility factor, of [0.6, 1.4], and the
\* fiat_flow_score calculate_scores makes of the sample is
\* (volatility - 1) * 200 + 100, in [20, 180], short of both of its clamps
\* and whatever the session, the hour and the base inflow are.
C14_FlowScoreRange ==
    score_pc = "scored" =>
        LET inflow == score_in[1].inflow
            f      == results[1].fiat_flow_score
            vol    == C14_Volatility(score_in[1].symbol)
        IN  /\ inflow.current_inflow > InflowDen
            /\ inflow.avg_inflow_5min > InflowDen
            /\ 6 <= vol /\ vol <= 14
            /\ 10 * inflow.current_inflow = vol * inflow.avg_inflow_5min
            /\ 20 * f.d <= f.n /\ f.n <= 180 * f.d
            /\ 0 < f.n /\ f.n < 200 * f.d
            /\ 10 * f.n = (200 * vol - 1000) * f.d

\* the smallest base inflow of the lowest tier with the smallest volatility
\* factor in the Asia session, scored 20
C14_Witness ==
    /\ score_pc = "scored"
    /\ score_in[1].symbol \notin (large_caps \cup mid_caps)
    /\ get_current_session(utc_hour) = "Asia"
    /\ score_in[1].inflow.avg_inflow_5min = 10 * 10 * 8 * DailyTrend(utc_hour)
    /\ results[1].fiat_flow_score.n = 20 * results[1].fiat_flow_score.d

====
